---- MODULE Spec2Model ----
(***************************************************************************)
(* Model of multiplication_counter.py: the analyzer                        *)
(* count_unique_multiplication_results(n, m) and the cell-drawing loop of  *)
(* visualize_multiplication_table(n, m).                                   *)
(*                                                                         *)
(* Matrices are indexed as in the code (0-based, <<row, col>>); the loop   *)
(* variables i, j of the analyzer are 1-based as in the code.  Products    *)
(* are stored as np.int32; under the bounds below i*j never leaves the     *)
(* int32 range, so no wrap-around is modelled.                             *)
(***************************************************************************)
EXTENDS Integers, FiniteSets, Sequences, TLC

\* Largest n and m passed to the two functions.
MaxN == 3
MaxM == 4

\* Arguments the callers pass: negative, zero and positive integers.
NArgs == -1 .. MaxN
MArgs == -1 .. MaxM

VARIABLES
    pc,             \* position of the program
    caller,         \* who called the analyzer: "direct" or "visualize"
    n, m,           \* arguments of the current call
    i, j,           \* analyzer loop variables (1-based)
    result_matrix,  \* np.zeros((n, m), int32)
    is_new_matrix,  \* np.zeros((n, m), bool)
    seen_results,   \* set()
    written,        \* cells of result_matrix assigned by the traversal
    ret,            \* tuple returned by the analyzer
    vi, vj,         \* drawing loop variables (0-based)
    patches,        \* rectangles added to the axes, in order
    memo            \* a result an earlier caller kept

vars == <<pc, caller, n, m, i, j, result_matrix, is_new_matrix, seen_results,
          written, ret, vi, vj, patches, memo>>

NoRet == [none |-> TRUE]
NoMemo == [none |-> TRUE]

\* np.zeros((rows, cols)) as a function over 0-based cells.
Zeros(rows, cols, zero) == [c \in (0 .. rows - 1) \X (0 .. cols - 1) |-> zero]

\* Variant: the set outlives the call (a module-level or default-argument set).
StaleSeenResults == seen_results

\* line 51: seen_results = set()
InitSeenResults == {}

\* Variant: a full scan of every row, np.arange(1, m + 1).
JStartFull(ii) == 1

\* line 54: j_range = np.arange(i, m + 1): the first j of row ii
JStart(ii) == ii

\* Variant: np.arange(i, m), the last column is dropped.
JEndShort == m - 1

\* line 54: j_range = np.arange(i, m + 1): the last j of every row
JEnd == m

\* Variant: the wrong operator in the product.
ProductSum(ii, jj) == ii + jj

\* line 55: results = i * j_range
Product(ii, jj) == ii * jj

\* Variant: off-by-one bound on the mirror write.
MirrorStrict(jj) == jj < n

\* line 61: if j <= n
MirrorInBounds(jj) == jj <= n

\* Variant: the membership test is dropped.
AlwaysUnseen(result) == TRUE

\* line 64: if result not in seen_results
IsUnseen(result) == result \notin seen_results

\* line 106: y_pos = n - 1 - i ; line 110: x_pos = j
YPos(row) == n - 1 - row
XPos(col) == col

\* Variant: the two colours are swapped.
FaceColorSwapped(isnew) == IF isnew THEN "white" ELSE "red"

\* line 111: color = 'red' if is_new_row[j] else 'white'
FaceColor(isnew) == IF isnew THEN "red" ELSE "white"

Terminal == {"idle", "returned", "raised", "vdone"}

Init ==
    /\ pc = "idle"
    /\ caller = "direct"
    /\ n = 0 /\ m = 0
    /\ i = 1 /\ j = 1
    /\ result_matrix = Zeros(0, 0, 0)
    /\ is_new_matrix = Zeros(0, 0, FALSE)
    /\ seen_results = {}
    /\ written = {}
    /\ ret = NoRet
    /\ vi = 0 /\ vj = 0
    /\ patches = <<>>
    /\ memo = NoMemo

\* lines 49-53: allocation of the matrices and the set, start of the loop.
\* Entered directly or through line 80 of visualize_multiplication_table.
CallAlloc(who, nn, mm) ==
    /\ pc \in Terminal
    /\ nn >= 0 /\ mm >= 0
    /\ pc' = "analyze"
    /\ caller' = who
    /\ n' = nn /\ m' = mm
    /\ result_matrix' = Zeros(nn, mm, 0)
    /\ is_new_matrix' = Zeros(nn, mm, FALSE)
    /\ seen_results' = InitSeenResults
    /\ written' = {}
    /\ i' = 1 /\ j' = JStart(1)
    /\ ret' = NoRet
    /\ vi' = 0 /\ vj' = 0
    /\ patches' = <<>>
    /\ UNCHANGED memo

\* line 49: np.zeros raises ValueError on a negative dimension.
CallRaise(who, nn, mm) ==
    /\ pc \in Terminal
    /\ nn < 0 \/ mm < 0
    /\ pc' = "raised"
    /\ caller' = who
    /\ n' = nn /\ m' = mm
    /\ result_matrix' = Zeros(0, 0, 0)
    /\ is_new_matrix' = Zeros(0, 0, FALSE)
    /\ written' = {}
    /\ i' = 1 /\ j' = 1
    /\ ret' = NoRet
    /\ vi' = 0 /\ vj' = 0
    /\ patches' = <<>>
    /\ UNCHANGED <<seen_results, memo>>

\* lines 57-66: one iteration of the inner loop.
InnerStep ==
    /\ pc = "analyze"
    /\ i <= n /\ j <= JEnd
    /\ LET result == Product(i, j)
           mirror == IF MirrorInBounds(j) THEN {<<j - 1, i - 1>>} ELSE {}
           cells  == {<<i - 1, j - 1>>} \cup mirror
       IN /\ result_matrix' = [c \in DOMAIN result_matrix |->
                                 IF c \in cells THEN result ELSE result_matrix[c]]
          /\ written' = written \cup cells
          /\ IF IsUnseen(result)
                THEN /\ is_new_matrix' = [is_new_matrix EXCEPT ![<<i - 1, j - 1>>] = TRUE]
                     /\ seen_results' = seen_results \cup {result}
                ELSE UNCHANGED <<is_new_matrix, seen_results>>
    /\ j' = j + 1
    /\ UNCHANGED <<pc, caller, n, m, i, ret, vi, vj, patches, memo>>

\* lines 53-54: the inner range is exhausted, the outer loop advances.
NextRow ==
    /\ pc = "analyze"
    /\ i <= n /\ j > JEnd
    /\ i' = i + 1
    /\ j' = JStart(i + 1)
    /\ UNCHANGED <<pc, caller, n, m, result_matrix, is_new_matrix, seen_results,
                   written, ret, vi, vj, patches, memo>>

\* line 68: return seen_results, len(seen_results), result_matrix, is_new_matrix
AnalyzeReturn ==
    /\ pc = "analyze"
    /\ i > n
    /\ ret' = [unique_results |-> seen_results,
               count          |-> Cardinality(seen_results),
               result_matrix  |-> result_matrix,
               is_new_matrix  |-> is_new_matrix]
    /\ pc' = IF caller = "direct" THEN "returned" ELSE "layout"
    /\ UNCHANGED <<caller, n, m, i, j, result_matrix, is_new_matrix, seen_results,
                   written, vi, vj, patches, memo>>

\* lines 82-105: figure layout; the drawing loop starts.
Layout ==
    /\ pc = "layout"
    /\ n > 0 /\ m > 0
    /\ pc' = "draw"
    /\ vi' = 0 /\ vj' = 0
    /\ UNCHANGED <<caller, n, m, i, j, result_matrix, is_new_matrix, seen_results,
                   written, ret, patches, memo>>

\* lines 97-103: subplots_adjust rejects left >= right (m = 0) and
\* bottom >= top (n = 0).
LayoutRaise ==
    /\ pc = "layout"
    /\ n = 0 \/ m = 0
    /\ pc' = "raised"
    /\ UNCHANGED <<caller, n, m, i, j, result_matrix, is_new_matrix, seen_results,
                   written, ret, vi, vj, patches, memo>>

\* lines 109-120: one rectangle is added.
DrawCell ==
    /\ pc = "draw"
    /\ vi < n /\ vj < m
    /\ patches' = Append(patches, [xy        |-> <<XPos(vj), YPos(vi)>>,
                                   facecolor |-> FaceColor(is_new_matrix[<<vi, vj>>])])
    /\ vj' = vj + 1
    /\ UNCHANGED <<pc, caller, n, m, i, j, result_matrix, is_new_matrix,
                   seen_results, written, ret, vi, memo>>

\* lines 105-109: end of a row of rectangles.
DrawNextRow ==
    /\ pc = "draw"
    /\ vi < n /\ vj >= m
    /\ vi' = vi + 1
    /\ vj' = 0
    /\ UNCHANGED <<pc, caller, n, m, i, j, result_matrix, is_new_matrix,
                   seen_results, written, ret, patches, memo>>

\* lines 122-143: annotations, save, return count, unique_results
VisualizeReturn ==
    /\ pc = "draw"
    /\ vi >= n
    /\ pc' = "vdone"
    /\ UNCHANGED <<caller, n, m, i, j, result_matrix, is_new_matrix, seen_results,
                   written, ret, vi, vj, patches, memo>>

\* The caller keeps the tuple returned at line 68 for later comparison.
Keep ==
    /\ pc = "returned"
    /\ memo # [n |-> n, m |-> m, ret |-> ret]
    /\ memo' = [n |-> n, m |-> m, ret |-> ret]
    /\ UNCHANGED <<pc, caller, n, m, i, j, result_matrix, is_new_matrix,
                   seen_results, written, ret, vi, vj, patches>>

Next ==
    \/ \E who \in {"direct", "visualize"}, nn \in NArgs, mm \in MArgs : CallAlloc(who, nn, mm)
    \/ \E who \in {"direct", "visualize"}, nn \in NArgs, mm \in MArgs : CallRaise(who, nn, mm)
    \/ InnerStep
    \/ NextRow
    \/ AnalyzeReturn
    \/ Layout
    \/ LayoutRaise
    \/ DrawCell
    \/ DrawNextRow
    \/ VisualizeReturn
    \/ Keep

Spec == Init /\ [][Next]_vars

(***************************************************************************)
(* Properties                                                              *)
(***************************************************************************)

\* The analyzer has returned for positive arguments.
Returned == ret # NoRet /\ n >= 1 /\ m >= 1

\* The products of the full nn x mm multiplication table.
FullProducts(nn, mm) == {a * b : a \in 1 .. nn, b \in 1 .. mm}

\* 1-based cell (r, c) as the 0-based index used by the matrices.
Cell(r, c) == <<r - 1, c - 1>>

\* The cells the half traversal visits (1-based), and its order.
Visited == {p \in (1 .. n) \X (1 .. m) : p[2] >= p[1]}
Earlier(p, q) == p[1] < q[1] \/ (p[1] = q[1] /\ p[2] < q[2])

TrueCells(mat) == {c \in DOMAIN mat : mat[c]}

Min(a, b) == IF a <= b THEN a ELSE b

\* C1: for all n, m >= 1 the returned set is the set of products of the
\* full n x m table and the returned count is its size.
C1_FullTableProducts ==
    Returned => /\ ret.unique_results = FullProducts(n, m)
                /\ ret.count = Cardinality(FullProducts(n, m))

\* C2: on return, count = size of the returned set = number of true entries
\* of is_new_matrix = number of distinct values in the cells of
\* result_matrix that the traversal wrote.
C2_CountAgreement ==
    Returned => /\ ret.count = Cardinality(ret.unique_results)
                /\ ret.count = Cardinality(TrueCells(ret.is_new_matrix))
                /\ ret.count = Cardinality({ret.result_matrix[c] : c \in written})

C2_Witness ==
    /\ pc = "returned" /\ n = 3 /\ m = 2
    /\ ret.count = 3
    /\ Cardinality(written) = 4

\* C3: for all n, m >= 1 every cell (r, c) of the returned product matrix
\* holds r*c.
C3_FullyPopulated ==
    Returned => \A r \in 1 .. n, c \in 1 .. m : ret.result_matrix[Cell(r, c)] = r * c

\* C4: mirror invariant: for all a, b <= min(n, m) the returned matrix has
\* result_matrix[a][b] = result_matrix[b][a] = a*b.
C4_MirrorInvariant ==
    Returned => \A a, b \in 1 .. Min(n, m) :
                    /\ ret.result_matrix[Cell(a, b)] = ret.result_matrix[Cell(b, a)]
                    /\ ret.result_matrix[Cell(a, b)] = a * b

C4_Witness ==
    /\ pc = "returned" /\ n = 3 /\ m = 2
    /\ ret.result_matrix[Cell(2, 1)] = 2
    /\ ret.result_matrix[Cell(3, 1)] = 0

C6_RejectsNonPositive ==
    (pc # "idle" /\ (n <= 0 \/ m <= 0)) => (pc = "raised" /\ ret = NoRet)

\* C7: a call returns the same tuple as any earlier call with the same
\* (n, m), whatever was called in between; every call starts from an empty
\* set and zero matrices.
C7_Idempotent ==
    /\ (ret # NoRet /\ memo # NoMemo /\ memo.n = n /\ memo.m = m) => memo.ret = ret
    /\ (pc = "analyze" /\ i = 1 /\ j = 1) =>
          /\ seen_results = {}
          /\ \A c \in DOMAIN result_matrix : result_matrix[c] = 0 /\ ~is_new_matrix[c]

C7_Witness ==
    /\ pc = "vdone" /\ n = 2 /\ m = 3
    /\ memo # NoMemo /\ memo.n = 2 /\ memo.m = 3
    /\ memo.ret.count = 5

\* The rectangles drawn at the position of 0-based cell (r, c).
PatchesAt(r, c) == {k \in 1 .. Len(patches) : patches[k].xy = <<c, n - 1 - r>>}
RedCells == {c \in DOMAIN ret.is_new_matrix :
                \E k \in PatchesAt(c[1], c[2]) : patches[k].facecolor = "red"}

\* C8: the renderer draws exactly n*m rectangles, one per cell, red iff
\* is_new_matrix is true there and white otherwise; the number of red cells
\* is the returned count and every distinct value is held by exactly one
\* red cell.
C8_OneRectPerCell ==
    pc = "vdone" =>
        /\ Len(patches) = n * m
        /\ \A r \in 0 .. n - 1, c \in 0 .. m - 1 :
              /\ Cardinality(PatchesAt(r, c)) = 1
              /\ \A k \in PatchesAt(r, c) :
                    patches[k].facecolor =
                        IF ret.is_new_matrix[<<r, c>>] THEN "red" ELSE "white"
        /\ Cardinality(RedCells) = ret.count
        /\ \A v \in ret.unique_results :
              Cardinality({c \in RedCells : ret.result_matrix[c] = v}) = 1

C8_Witness ==
    /\ pc = "vdone" /\ n = 3 /\ m = 2
    /\ Len(patches) = 6
    /\ Cardinality(RedCells) = 3

C10_HalfTraversalComplete ==
    (Returned /\ n <= m) =>
        /\ ret.unique_results = FullProducts(n, m)
        /\ ret.count = Cardinality(FullProducts(n, m))
        /\ \A r \in 1 .. n, c \in 1 .. m : ret.result_matrix[Cell(r, c)] = r * c
        /\ (n = 1 /\ m = 1) =>
              /\ ret.result_matrix[Cell(1, 1)] = 1
              /\ ret.count = 1
              /\ ret.is_new_matrix[Cell(1, 1)]
        /\ (n = 2 /\ m = 4) =>
              /\ \A c \in 1 .. 4 : /\ ret.result_matrix[Cell(1, c)] = c
                                   /\ ret.result_matrix[Cell(2, c)] = 2 * c
              /\ ret.unique_results = {1, 2, 3, 4, 6, 8}
              /\ ret.count = 6

C10_Witness ==
    /\ pc = "returned" /\ n = 2 /\ m = 4
    /\ ret.count = 6
    /\ ret.result_matrix[Cell(2, 1)] = 2

====
